---- MODULE Spec2Model ----
(***************************************************************************)
(* Credential lifecycle of graph-mcp: AuthManager and EncryptionManager    *)
(* (auth/auth-manager.js), driven by the tool handlers of ProfileTools and *)
(* EmailTools.  Every await of the JavaScript code is a point where other  *)
(* request handlers and background poll loops may run; each action below   *)
(* is the synchronous stretch of code between two awaits.                  *)
(***************************************************************************)
EXTENDS Integers, Sequences, FiniteSets, TLC

(* ------------------------------ bounds -------------------------------- *)
\* request handlers that may be in flight at the same time
NumCallers == 2
\* device flows (and so background poll loops) started in one run
MaxPolls == 2
\* TokenSets the authorization server issues in one run
MaxIssued == 2
\* asynchronous tasks (request handlers and poll loops) alive at one time
MaxActive == 2
\* clock advances in one run, each of TOKEN_EXPIRY_BUFFER milliseconds
MaxTicks == 1
\* CONFIG.MAX_POLL_ATTEMPTS is 180 in config.js; the loop is the same for
\* every positive value and the model runs it with a small one
MAX_POLL_ATTEMPTS == 2

(* -------------------------- program constants -------------------------- *)
TOKEN_EXPIRY_BUFFER == 5 * 60 * 1000
DEVICE_CODE_POLL_INTERVAL == 5 * 1000

Callers == 1..NumCallers
PollIds == 1..MaxPolls

\* expires_in values (seconds) of token responses: 300 s is inside the
\* expiry buffer from the moment of issue, 600 s is fresh for one tick
ExpiresIn == {300, 600}
\* interval values (seconds) of device-code responses: a value that differs
\* from the 5 s of CONFIG.DEVICE_CODE_POLL_INTERVAL, so that the interval of
\* the server and the one of the configuration are told apart
DevIntervals == {10}

(* ------------------------------- values -------------------------------- *)
\* JavaScript null / undefined
Null == [kind |-> "null"]
NoId == -1

\* a TokenSet whose expires_in is added to the time as if it were
\* milliseconds
TokenSetUnscaled(at, rt, ein, t) ==
  [kind |-> "tokens", access_token |-> at, refresh_token |-> rt,
   expires_in |-> ein, expires_at |-> t + ein, token_type |-> "Bearer"]

\* this.tokens as built at lines 351-357 and 407-413
TokenSet(at, rt, ein, t) ==
  [kind |-> "tokens", access_token |-> at, refresh_token |-> rt,
   expires_in |-> ein, expires_at |-> t + (ein * 1000), token_type |-> "Bearer"]

\* this.deviceCode as built at lines 297-303
DeviceAuthorization(dc, iv) ==
  [kind |-> "device", device_code |-> dc, user_code |-> dc,
   verification_uri |-> "https://microsoft.com/devicelogin",
   expires_in |-> 900, interval |-> iv]

\* Instructions with the poll interval reported as the expiry
InstructionsWrongExpiry(d) ==
  [kind |-> "instructions", verification_uri |-> d.verification_uri,
   user_code |-> d.user_code, expires_in |-> d.interval]

\* authInstructions.instructions, lines 308-316
Instructions(d) ==
  [kind |-> "instructions", verification_uri |-> d.verification_uri,
   user_code |-> d.user_code, expires_in |-> d.expires_in]

(* ------------------------- EncryptionManager --------------------------- *)
NoKey == "nokey"
\* pbkdf2 of the machine id of this host
MachineKey == "key-of-this-machine"

NoFile == [kind |-> "absent"]
\* a file that exists but is not the JSON of an encrypted blob (truncated
\* by an interrupted writeFile, or garbage)
CorruptFile == [kind |-> "corrupt"]

\* encrypt + JSON.stringify: the blob written by saveEncryptedData
encrypt(data, key) == [kind |-> "blob", key |-> key, data |-> data]

\* decrypt that returns the decrypted text without JSON.parse
decryptUnparsed(blob, key) ==
  IF blob.kind = "blob" /\ blob.key = key
    THEN [ok |-> TRUE, value |-> [kind |-> "text", of |-> blob.data]]
    ELSE [ok |-> FALSE, value |-> Null]

\* decrypt that does not verify the authentication tag
decryptUnauthenticated(blob, key) ==
  IF blob.kind \in {"blob", "altered"}
    THEN [ok |-> TRUE, value |-> blob.data]
    ELSE [ok |-> FALSE, value |-> Null]

\* decrypt: the plaintext, or "fail" when the tag does not verify
decrypt(blob, key) ==
  IF blob.kind = "blob" /\ blob.key = key
    THEN [ok |-> TRUE, value |-> blob.data]
    ELSE [ok |-> FALSE, value |-> Null]

\* getMachineKey: the outcomes of one call, given the cache.  machineId()
\* may fail; the key is cached only when it succeeds.
getMachineKey(cache) ==
  IF cache # NoKey
    THEN {[ok |-> TRUE, key |-> cache]}
    ELSE {[ok |-> TRUE, key |-> MachineKey], [ok |-> FALSE, key |-> NoKey]}

\* saveEncryptedData whose failed write leaves a readable blob that is
\* neither the old content nor the new one
saveEncryptedDataTorn(old, data, cache) ==
  UNION { IF k.ok
            THEN {[ok |-> TRUE, file |-> encrypt(data, k.key), key |-> k.key],
                  [ok |-> FALSE, file |-> old, key |-> k.key],
                  [ok |-> FALSE, file |-> encrypt(Null, k.key), key |-> k.key]}
            ELSE {[ok |-> FALSE, file |-> old, key |-> k.key]}
          : k \in getMachineKey(cache) }

\* saveEncryptedData that logs a failure and returns normally
saveEncryptedDataSwallow(old, data, cache) ==
  UNION { IF k.ok
            THEN {[ok |-> TRUE, file |-> encrypt(data, k.key), key |-> k.key],
                  [ok |-> TRUE, file |-> old, key |-> k.key],
                  [ok |-> TRUE, file |-> CorruptFile, key |-> k.key]}
            ELSE {[ok |-> TRUE, file |-> old, key |-> k.key]}
          : k \in getMachineKey(cache) }

\* saveEncryptedData: the outcomes of one call.  The key derivation may fail
\* (file untouched); fs.writeFile may fail before or after truncating the
\* file; otherwise the file holds the new blob.
saveEncryptedData(old, data, cache) ==
  UNION { IF k.ok
            THEN {[ok |-> TRUE, file |-> encrypt(data, k.key), key |-> k.key],
                  [ok |-> FALSE, file |-> old, key |-> k.key],
                  [ok |-> FALSE, file |-> CorruptFile, key |-> k.key]}
            ELSE {[ok |-> FALSE, file |-> old, key |-> k.key]}
          : k \in getMachineKey(cache) }

\* loadEncryptedData answering null for every file it cannot read
loadEncryptedDataLenient(file, cache) ==
  IF file.kind = "blob"
    THEN { IF k.ok /\ decrypt(file, k.key).ok
             THEN [ok |-> TRUE, value |-> decrypt(file, k.key).value,
                   key |-> k.key]
             ELSE [ok |-> TRUE, value |-> Null, key |-> k.key]
           : k \in getMachineKey(cache) }
    ELSE {[ok |-> TRUE, value |-> Null, key |-> cache]}

\* loadEncryptedData: the outcomes of one call: null for ENOENT, the
\* plaintext, or an error
loadEncryptedData(file, cache) ==
  IF file.kind = "absent"
    THEN {[ok |-> TRUE, value |-> Null, key |-> cache]}
    ELSE IF file.kind = "corrupt"
      THEN {[ok |-> FALSE, value |-> Null, key |-> cache]}
      ELSE { IF k.ok
               THEN [ok |-> decrypt(file, k.key).ok,
                     value |-> decrypt(file, k.key).value, key |-> k.key]
               ELSE [ok |-> FALSE, value |-> Null, key |-> k.key]
             : k \in getMachineKey(cache) }

(* ----------------------------- the state ------------------------------- *)
VARIABLES
  initialized,  \* GraphMCPServer.isInitialized
  tokens,       \* AuthManager.tokens
  deviceCode,   \* AuthManager.deviceCode
  machineKey,   \* EncryptionManager._machineKey
  tokenFile,    \* content of CONFIG.TOKEN_FILE
  deviceFile,   \* content of CONFIG.DEVICE_FILE
  now,          \* Date.now()
  calls,        \* the request handlers: position and locals of each
  polls,        \* the background poll loops: position and locals of each
  nextId,       \* authorization server: next access/refresh token to issue
  nextDev,      \* authorization server: next device code to issue
  ret           \* what the step just taken returned or threw, if it ended
                \* a handler or a poll loop

vars == <<initialized, tokens, deviceCode, machineKey, tokenFile, deviceFile,
          now, calls, polls, nextId, nextDev, ret>>

\* a TokenSet left in the token file by an earlier run of the server
StoredTokens == TokenSet(0, 0, 600, 0)

\* a handler that is not running.  While it runs: op is the operation, pc
\* the await it is suspended at, startAccess the access token held when it
\* was entered, refreshReqs the refresh requests it has sent, sent the
\* refresh token of its request, resp the response to it (the const of line
\* 398), data the object it built and passed to save, builtAt the time it
\* built it.
IdleCall ==
  [pc |-> "idle", op |-> "none", startAccess |-> NoId, refreshReqs |-> 0,
   data |-> Null, builtAt |-> 0, sent |-> NoId, resp |-> Null]

\* a poll loop slot not yet used.  While the loop runs: pc is the await it
\* is suspended at, attempts the local of line 337, sent the device code of
\* its last request, data the TokenSet it built, builtAt the time it built
\* it, sleepFor the delay of its timer.
FreePoll == [pc |-> "free", attempts |-> 0, sent |-> NoId, data |-> Null,
             builtAt |-> 0, sleepFor |-> 0]
\* a slot whose loop is over
EndedPoll == [FreePoll EXCEPT !.pc = "ended"]

\* no handler and no poll loop ended in the step just taken
NoRet ==
  [task |-> "none", id |-> 0, op |-> "none", kind |-> "none",
   cause |-> "none", token |-> NoId, instr |-> Null, launched |-> 0,
   local |-> Null]

\* handler c ends: kind is a return ("token", "refreshed") or the error
\* thrown, cause the error that was caught and rethrown as kind, token the
\* access token returned, instr the instructions thrown, launched the poll
\* loop it launched, local the handler's locals when it ended
CallRet(c, call, kind, cause, token, instr, launched) ==
  [task |-> "call", id |-> c, op |-> call.op, kind |-> kind,
   cause |-> cause, token |-> token, instr |-> instr,
   launched |-> launched, local |-> call]

\* PollRet reporting success whatever pollForToken threw
PollRetSuccess(p, kind) ==
  [task |-> "poll", id |-> p, op |-> "pollForToken", kind |-> "success",
   cause |-> "none", token |-> NoId, instr |-> Null, launched |-> 0,
   local |-> polls[p]]

\* poll loop p ends: kind is "success" or the error thrown by pollForToken,
\* local the loop's locals when it ended
PollRet(p, kind) ==
  [task |-> "poll", id |-> p, op |-> "pollForToken", kind |-> kind,
   cause |-> "none", token |-> NoId, instr |-> Null, launched |-> 0,
   local |-> polls[p]]

Init ==
  /\ initialized = FALSE
  /\ tokens = Null
  /\ deviceCode = Null
  /\ machineKey = NoKey
  /\ tokenFile \in {NoFile, CorruptFile, encrypt(StoredTokens, MachineKey)}
  /\ deviceFile = NoFile
  /\ now = 0
  /\ calls = [c \in Callers |-> IdleCall]
  /\ polls = [p \in PollIds |-> FreePoll]
  /\ nextId = 1
  /\ nextDev = 1
  /\ ret = NoRet

(* --------------------------- AuthManager ------------------------------- *)
\* IsExpiring with the buffer counted twice
IsExpiringTwiceBuffer(t, tok) ==
  t >= tok.expires_at - (2 * TOKEN_EXPIRY_BUFFER)

\* IsExpiring without the buffer: only a token past its expiry
IsExpiringNoBuffer(t, tok) == t >= tok.expires_at

\* line 276: the token is expired or about to expire
IsExpiring(t, tok) == t >= tok.expires_at - TOKEN_EXPIRY_BUFFER

\* line 393, negated: this.tokens?.refresh_token is truthy
HasRefreshToken(tok) == tok.kind = "tokens" /\ tok.refresh_token # NoId

\* AuthManager.initialize, run once by GraphMCPServer.initialize before any
\* request is served.  loadTokens and loadDeviceCode turn every load error
\* into "nothing stored".
Initialize ==
  /\ initialized = FALSE
  /\ \E lt \in loadEncryptedData(tokenFile, machineKey) :
       \E ld \in loadEncryptedData(deviceFile, lt.key) :
         /\ tokens' = IF lt.ok THEN lt.value ELSE Null
         /\ deviceCode' = IF ld.ok THEN ld.value ELSE Null
         /\ machineKey' = ld.key
  /\ initialized' = TRUE
  /\ ret' = NoRet
  /\ UNCHANGED <<tokenFile, deviceFile, now, calls, polls, nextId, nextDev>>

\* a handler entering operation op
StartCall(op) ==
  [IdleCall EXCEPT !.op = op,
     !.startAccess = IF tokens = Null THEN NoId ELSE tokens.access_token]

\* the tasks alive: handlers not idle, poll loops launched and not ended
Active ==
  Cardinality({c \in Callers : calls[c].pc # "idle"})
  + Cardinality({p \in PollIds : polls[p].pc \notin {"free", "ended"}})

\* device codes issued plus device-code requests in flight
FlowsStarted ==
  (nextDev - 1) + Cardinality({c \in Callers : calls[c].pc = "dev_req"})

\* refreshAccessToken up to its first await (lines 392-405), entered by
\* handler c for operation op: without a refresh token it throws at once,
\* otherwise the refresh request is sent
BeginRefresh(c, op) ==
  /\ IF HasRefreshToken(tokens)
       THEN /\ calls' = [calls EXCEPT ![c] =
                 [StartCall(op) EXCEPT !.pc = "ref_req", !.refreshReqs = 1,
                                       !.sent = tokens.refresh_token]]
            /\ ret' = NoRet
       ELSE /\ ret' = CallRet(c, StartCall(op), "no_refresh_token", "none",
                              NoId, Null, 0)
            /\ UNCHANGED calls
  /\ UNCHANGED <<initialized, tokens, deviceCode, machineKey, tokenFile,
                 deviceFile, now, polls, nextId, nextDev>>

\* authenticate up to its first await (lines 284-295): the device-code
\* request is sent
BeginAuthenticate(c, op) ==
  /\ FlowsStarted < MaxPolls
  /\ calls' = [calls EXCEPT ![c] = [StartCall(op) EXCEPT !.pc = "dev_req"]]
  /\ ret' = NoRet
  /\ UNCHANGED <<initialized, tokens, deviceCode, machineKey, tokenFile,
                 deviceFile, now, polls, nextId, nextDev>>

\* getValidAccessToken up to its first await (lines 267-282); called by
\* every tool and by check_auth_status
GetValidAccessToken(c) ==
  /\ initialized
  /\ calls[c].pc = "idle"
  /\ Active < MaxActive
  /\ IF tokens = Null
       THEN BeginAuthenticate(c, "getValidAccessToken")
       ELSE IF IsExpiring(now, tokens)
         THEN BeginRefresh(c, "getValidAccessToken")
         ELSE /\ ret' = CallRet(c, StartCall("getValidAccessToken"), "token",
                                "none", tokens.access_token, Null, 0)
              /\ UNCHANGED <<initialized, tokens, deviceCode, machineKey,
                             tokenFile, deviceFile, now, calls, polls,
                             nextId, nextDev>>

\* AuthenticateTool dispatched without the isInitialized test of the
\* CallTool handler
AuthenticateToolUnguarded(c) ==
  /\ calls[c].pc = "idle"
  /\ Active < MaxActive
  /\ BeginAuthenticate(c, "authenticate")

\* the authenticate_graph_mcp tool: ProfileTools.authenticate calls
\* AuthManager.authenticate whatever the state
AuthenticateTool(c) ==
  /\ initialized
  /\ calls[c].pc = "idle"
  /\ Active < MaxActive
  /\ BeginAuthenticate(c, "authenticate")

\* EmailTools.handleError and ProfileTools.getMyProfile after a 401 of the
\* Graph API: refreshAccessToken is called directly
RefreshTool(c) ==
  /\ initialized
  /\ calls[c].pc = "idle"
  /\ Active < MaxActive
  /\ BeginRefresh(c, "refreshAccessToken")

\* the device-code endpoint answers (lines 288-305): on success
\* this.deviceCode is replaced and saveDeviceCode begins; on failure the
\* catch of authenticate throws "Authentication failed"
DeviceCodeResponse(c) ==
  /\ calls[c].pc = "dev_req"
  /\ \E ok \in BOOLEAN : \E iv \in DevIntervals :
       IF ok
         THEN LET d == DeviceAuthorization(nextDev, iv) IN
              /\ deviceCode' = d
              /\ nextDev' = nextDev + 1
              /\ calls' = [calls EXCEPT ![c].pc = "dev_save", ![c].data = d]
              /\ ret' = NoRet
         ELSE /\ calls' = [calls EXCEPT ![c] = IdleCall]
              /\ ret' = CallRet(c, calls[c], "authentication_failed",
                                "network", NoId, Null, 0)
              /\ UNCHANGED <<deviceCode, nextDev>>
  /\ UNCHANGED <<initialized, tokens, machineKey, tokenFile, deviceFile,
                 now, polls, nextId>>

\* the least poll loop slot not yet used
FreeSlot == CHOOSE p \in PollIds :
  /\ polls[p].pc = "free"
  /\ \A q \in PollIds : polls[q].pc = "free" => p <= q

\* PollIterate with the loop test "attempts <= MAX_POLL_ATTEMPTS"
PollIterateOneMore(pl) ==
  IF pl.attempts <= MAX_POLL_ATTEMPTS
    THEN [pl EXCEPT !.pc = "req", !.sent = deviceCode.device_code,
                    !.sleepFor = 0]
    ELSE EndedPoll

\* pollForToken from its entry or from the end of a sleep to the next
\* await (lines 335-348): the loop test, then a token request that carries
\* the device code this.deviceCode holds at that moment
PollIterate(pl) ==
  IF pl.attempts < MAX_POLL_ATTEMPTS
    THEN [pl EXCEPT !.pc = "req", !.sent = deviceCode.device_code,
                    !.sleepFor = 0]
    ELSE EndedPoll

\* saveDeviceCode returns or throws (lines 305-332).  On success the
\* instructions are read from this.deviceCode, the poll loop is launched
\* without being awaited and the instructions are thrown.
DeviceSaveDone(c) ==
  /\ calls[c].pc = "dev_save"
  /\ \E s \in saveEncryptedData(deviceFile, calls[c].data, machineKey) :
       /\ deviceFile' = s.file
       /\ machineKey' = s.key
       /\ IF s.ok
            THEN /\ polls' = [polls EXCEPT ![FreeSlot] = PollIterate(FreePoll)]
                 /\ ret' = CallRet(c, calls[c], "authentication_required",
                                   "none", NoId, Instructions(deviceCode),
                                   FreeSlot)
            ELSE /\ ret' = CallRet(c, calls[c], "authentication_failed",
                                   "save_failed", NoId, Null, 0)
                 /\ UNCHANGED polls
  /\ calls' = [calls EXCEPT ![c] = IdleCall]
  /\ UNCHANGED <<initialized, tokens, deviceCode, tokenFile, now, nextId,
                 nextDev>>

\* what the token endpoint may answer to a grant: a new TokenSet (with or
\* without a refresh token) or one of the errors
TokenResponses(errors) ==
  {[ok |-> TRUE, error |-> "none", access_token |-> nextId,
    refresh_token |-> rt, expires_in |-> ein]
     : rt \in {NoId, nextId}, ein \in {e \in ExpiresIn : nextId <= MaxIssued}}
  \cup {[ok |-> FALSE, error |-> e, access_token |-> NoId,
         refresh_token |-> NoId, expires_in |-> 0] : e \in errors}

\* the refresh token with the held one preferred to the one in the response
RefreshTokenPreferHeld(r, held) ==
  IF held.refresh_token # NoId THEN held.refresh_token ELSE r.refresh_token

\* line 409: response.data.refresh_token || this.tokens.refresh_token
RefreshTokenOf(r, held) ==
  IF r.refresh_token # NoId THEN r.refresh_token ELSE held.refresh_token

\* the token endpoint answers a refresh (lines 398-424).  A success
\* replaces this.tokens and saveTokens begins; a failure, and the TypeError
\* of line 409 when this.tokens is gone and the response has no refresh
\* token, run the catch: this.tokens = null, saveTokens (which writes
\* nothing for null), throw.
RefreshResponse(c) ==
  /\ calls[c].pc = "ref_req"
  /\ \E r \in TokenResponses({"invalid_grant", "network"}) :
       /\ nextId' = IF r.ok THEN nextId + 1 ELSE nextId
       /\ IF r.ok /\ ~(r.refresh_token = NoId /\ tokens = Null)
            THEN LET new == TokenSet(r.access_token, RefreshTokenOf(r, tokens),
                                     r.expires_in, now)
                 IN /\ tokens' = new
                    /\ calls' = [calls EXCEPT ![c].pc = "ref_save",
                                 ![c].data = new, ![c].builtAt = now,
                                 ![c].resp = r]
                    /\ ret' = NoRet
            ELSE /\ tokens' = Null
                 /\ calls' = [calls EXCEPT ![c] = IdleCall]
                 /\ ret' = CallRet(c, calls[c], "reauthenticate",
                                   IF r.ok THEN "type_error" ELSE r.error,
                                   NoId, Null, 0)
  /\ UNCHANGED <<initialized, deviceCode, machineKey, tokenFile, deviceFile,
                 now, polls, nextDev>>

\* ReturnedToken answering the access token read before the refresh
ReturnedTokenStale(c) == calls[c].startAccess

\* line 281 after the refresh: this.tokens is read again
ReturnedToken(c) == tokens.access_token

\* saveTokens of a refresh returns or throws (lines 415-424, then 281 for
\* getValidAccessToken, which reads this.tokens again)
RefreshSaveDone(c) ==
  /\ calls[c].pc = "ref_save"
  /\ \E s \in saveEncryptedData(tokenFile, calls[c].data, machineKey) :
       /\ tokenFile' = s.file
       /\ machineKey' = s.key
       /\ IF s.ok
            THEN /\ UNCHANGED tokens
                 /\ ret' =
                      IF calls[c].op = "refreshAccessToken"
                        THEN CallRet(c, calls[c], "refreshed", "none", NoId,
                                     Null, 0)
                        ELSE IF tokens = Null
                          THEN CallRet(c, calls[c], "type_error", "none",
                                       NoId, Null, 0)
                          ELSE CallRet(c, calls[c], "token", "none",
                                       ReturnedToken(c), Null, 0)
            ELSE /\ tokens' = Null
                 /\ ret' = CallRet(c, calls[c], "reauthenticate",
                                   "save_failed", NoId, Null, 0)
  /\ calls' = [calls EXCEPT ![c] = IdleCall]
  /\ UNCHANGED <<initialized, deviceCode, deviceFile, now, polls, nextId,
                 nextDev>>

\* the token endpoint answers a poll request (lines 341-376): a success
\* replaces this.tokens and saveTokens begins; authorization_pending counts
\* an attempt and starts the timer; every other error is rethrown and ends
\* the loop
PollResponse(p) ==
  /\ polls[p].pc = "req"
  /\ \E r \in TokenResponses({"authorization_pending",
                "authorization_declined", "expired_token", "network"}) :
       /\ nextId' = IF r.ok THEN nextId + 1 ELSE nextId
       /\ IF r.ok
            THEN LET new == TokenSet(r.access_token, r.refresh_token,
                                     r.expires_in, now)
                 IN /\ tokens' = new
                    /\ polls' = [polls EXCEPT ![p].pc = "save",
                                 ![p].data = new, ![p].builtAt = now]
                    /\ ret' = NoRet
            ELSE /\ UNCHANGED tokens
                 /\ IF r.error = "authorization_pending"
                      THEN /\ polls' = [polls EXCEPT ![p].pc = "sleep",
                                ![p].attempts = @ + 1,
                                ![p].sleepFor = DEVICE_CODE_POLL_INTERVAL]
                           /\ ret' = NoRet
                      ELSE /\ polls' = [polls EXCEPT ![p] = EndedPoll]
                           /\ ret' = PollRet(p, r.error)
  /\ UNCHANGED <<initialized, deviceCode, machineKey, tokenFile, deviceFile,
                 now, calls, nextDev>>

\* PollSaveDone with CONFIG.TOKEN_FILE and CONFIG.DEVICE_FILE naming the
\* same file
PollSaveDoneOneFile(p) ==
  /\ polls[p].pc = "save"
  /\ \E s \in saveEncryptedData(tokenFile, polls[p].data, machineKey) :
       /\ tokenFile' = s.file
       /\ deviceFile' = s.file
       /\ machineKey' = s.key
       /\ ret' = PollRet(p, IF s.ok THEN "success" ELSE "save_failed")
  /\ polls' = [polls EXCEPT ![p] = EndedPoll]
  /\ UNCHANGED <<initialized, tokens, deviceCode, now, calls, nextId,
                 nextDev>>

\* saveTokens of a poll success returns or throws (lines 359-376); a throw
\* is rethrown as "Token polling failed" and ends the loop
PollSaveDone(p) ==
  /\ polls[p].pc = "save"
  /\ \E s \in saveEncryptedData(tokenFile, polls[p].data, machineKey) :
       /\ tokenFile' = s.file
       /\ machineKey' = s.key
       /\ ret' = PollRet(p, IF s.ok THEN "success" ELSE "save_failed")
  /\ polls' = [polls EXCEPT ![p] = EndedPoll]
  /\ UNCHANGED <<initialized, tokens, deviceCode, deviceFile, now, calls,
                 nextId, nextDev>>

\* the sleep of line 367 ends: continue, loop test, next request or the
\* timeout of line 379
PollWake(p) ==
  /\ polls[p].pc = "sleep"
  /\ polls' = [polls EXCEPT ![p] = PollIterate(@)]
  /\ ret' = IF polls[p].attempts < MAX_POLL_ATTEMPTS THEN NoRet
            ELSE PollRet(p, "timeout")
  /\ UNCHANGED <<initialized, tokens, deviceCode, machineKey, tokenFile,
                 deviceFile, now, calls, nextId, nextDev>>

\* time passes
Tick ==
  /\ now < MaxTicks * TOKEN_EXPIRY_BUFFER
  /\ now' = now + TOKEN_EXPIRY_BUFFER
  /\ ret' = NoRet
  /\ UNCHANGED <<initialized, tokens, deviceCode, machineKey, tokenFile,
                 deviceFile, calls, polls, nextId, nextDev>>

Next ==
  \/ Initialize
  \/ \E c \in Callers : GetValidAccessToken(c)
  \/ \E c \in Callers : AuthenticateTool(c)
  \/ \E c \in Callers : RefreshTool(c)
  \/ \E c \in Callers : DeviceCodeResponse(c)
  \/ \E c \in Callers : DeviceSaveDone(c)
  \/ \E c \in Callers : RefreshResponse(c)
  \/ \E c \in Callers : RefreshSaveDone(c)
  \/ \E p \in PollIds : PollResponse(p)
  \/ \E p \in PollIds : PollSaveDone(p)
  \/ \E p \in PollIds : PollWake(p)
  \/ Tick

Spec == Init /\ [][Next]_vars

(* ------------------------------ the claims ----------------------------- *)
\* the step enters getValidAccessToken in handler c: the handler either
\* suspends at its first await or ends within the step
GetValidEntry(c) ==
  /\ calls[c].pc = "idle"
  /\ \/ /\ calls'[c].pc # "idle"
        /\ calls'[c].op = "getValidAccessToken"
     \/ /\ calls'[c] = calls[c]
        /\ ret'.task = "call"
        /\ ret'.id = c
        /\ ret'.op = "getValidAccessToken"
        /\ ret'.local.pc = "idle"

\* the step ends the getValidAccessToken of handler c on its refresh path
GetValidRefreshEnds(c) ==
  /\ calls[c].op = "getValidAccessToken"
  /\ calls[c].pc \in {"ref_req", "ref_save"}
  /\ calls'[c].pc = "idle"

\* the poll loops that are running
RunningPolls == {p \in PollIds : polls[p].pc \in {"req", "sleep", "save"}}

\* C1: when refreshAccessToken has just failed because the token endpoint
\* rejected the refresh token or the request failed, no TokenSet is held in
\* memory and the token file no longer holds the TokenSet that was held
\* when the call was entered.
C1_RefreshFailureClearsMemoryAndDisk ==
  (ret.task = "call" /\ ret.kind = "reauthenticate"
     /\ ret.cause \in {"invalid_grant", "network"})
  => /\ tokens = Null
     /\ ~(tokenFile.kind = "blob"
          /\ tokenFile.data.access_token = ret.local.startAccess)

\* C2 as stated: a getValidAccessToken entered with no TokenSet whose
\* device-code request succeeded ends with authentication_required carrying
\* the verification URI, user code and expiry of the DeviceAuthorization
\* it obtained, with its poll loop launched and still waiting for its first
\* response; and no getValidAccessToken entered with no TokenSet returns a
\* token.
C2_AuthRequiredOwnInstructions ==
  /\ (ret.task = "call" /\ ret.op = "getValidAccessToken"
        /\ ret.local.pc = "dev_save")
     => /\ ret.kind = "authentication_required"
        /\ ret.instr.verification_uri = ret.local.data.verification_uri
        /\ ret.instr.user_code = ret.local.data.user_code
        /\ ret.instr.expires_in = ret.local.data.expires_in
        /\ polls[ret.launched].pc = "req"
        /\ polls[ret.launched].attempts = 0
  /\ (ret.task = "call" /\ ret.op = "getValidAccessToken"
        /\ ret.local.startAccess = NoId)
     => ret.kind # "token"

\* C2 amended: a getValidAccessToken entered with no TokenSet whose
\* device-code request succeeded ends with authentication_required exactly
\* when its DeviceAuthorization has been saved, and with an
\* authentication-failed error and no poll loop otherwise.  The
\* instructions are those of the DeviceAuthorization held in memory at that
\* moment, which is the one the call obtained or one obtained later by an
\* overlapping device flow; the poll loop it launched is still waiting for
\* its first response.  No getValidAccessToken entered with no TokenSet
\* returns a token.
C2_AuthRequiredWhenSaved ==
  /\ (ret.task = "call" /\ ret.op = "getValidAccessToken"
        /\ ret.local.pc = "dev_save")
     => /\ ret.kind \in {"authentication_required", "authentication_failed"}
        /\ (ret.kind = "authentication_required")
             <=> (deviceFile = encrypt(ret.local.data, machineKey))
        /\ ret.kind = "authentication_required"
             => /\ ret.instr.verification_uri = deviceCode.verification_uri
                /\ ret.instr.user_code = deviceCode.user_code
                /\ ret.instr.expires_in = deviceCode.expires_in
                /\ deviceCode.device_code >= ret.local.data.device_code
                /\ ret.launched \in PollIds
                /\ polls[ret.launched].pc = "req"
                /\ polls[ret.launched].attempts = 0
        /\ ret.kind = "authentication_failed" => ret.launched = 0
  /\ (ret.task = "call" /\ ret.op = "getValidAccessToken"
        /\ ret.local.startAccess = NoId)
     => ret.kind \in {"authentication_required", "authentication_failed"}

\* C2 witness: a getValidAccessToken has just failed with
\* authentication_required after saving the DeviceAuthorization it obtained
C2_Witness ==
  /\ ret.task = "call"
  /\ ret.op = "getValidAccessToken"
  /\ ret.kind = "authentication_required"
  /\ ret.local.startAccess = NoId
  /\ deviceFile = encrypt(ret.local.data, machineKey)

C4_FreshTokenReturnedUntouched ==
  [][\A c \in Callers :
       (GetValidEntry(c) /\ tokens # Null
          /\ now < tokens.expires_at - TOKEN_EXPIRY_BUFFER)
       => /\ ret'.task = "call"
          /\ ret'.id = c
          /\ ret'.kind = "token"
          /\ ret'.token = tokens.access_token
          /\ ret'.local.refreshReqs = 0
          /\ ret'.launched = 0
          /\ UNCHANGED <<initialized, tokens, deviceCode, machineKey,
                         tokenFile, deviceFile, now, calls, polls, nextId,
                         nextDev>>]_vars

\* C4 witness: a getValidAccessToken has just returned the cached access
\* token of a TokenSet that is still fresh, without any refresh
C4_Witness ==
  /\ ret.task = "call"
  /\ ret.op = "getValidAccessToken"
  /\ ret.kind = "token"
  /\ ret.local.pc = "idle"
  /\ ret.local.refreshReqs = 0
  /\ tokens # Null
  /\ ret.token = tokens.access_token
  /\ now < tokens.expires_at - TOKEN_EXPIRY_BUFFER

\* C5: when a refreshAccessToken has just failed (rejected or failed
\* request, failed save, or no refresh token) and the next step enters
\* getValidAccessToken, that call starts a device flow: it sends a
\* device-code request, and neither returns a token nor refreshes.
C5_AfterRefreshFailureDeviceFlow ==
  [][\A c \in Callers :
       (ret.task = "call"
          /\ ret.kind \in {"reauthenticate", "no_refresh_token"}
          /\ GetValidEntry(c))
       => calls'[c].pc = "dev_req"]_vars

\* C6: when a poll loop has just ended in success, the TokenSet built from
\* the response is held and persisted with expiresAt = time of the response
\* + expires_in * 1000, the loop is over, and the DeviceAuthorization is
\* gone from memory and from the device file.
C6_PollSuccessDiscardsDeviceAuthorization ==
  (ret.task = "poll" /\ ret.kind = "success")
  => /\ ret.local.data.expires_at
          = ret.local.builtAt + (ret.local.data.expires_in * 1000)
     /\ tokenFile = encrypt(ret.local.data, machineKey)
     /\ polls[ret.id].pc = "ended"
     /\ deviceCode = Null
     /\ deviceFile.kind # "blob"
     /\ tokens = ret.local.data

\* C7: when a poll loop has just ended on authorization_declined or
\* expired_token, the loop is over, the DeviceAuthorization is gone from
\* memory and from the device file, and no TokenSet is held.
C7_DeclinedOrExpiredRevertsToNoCredentials ==
  (ret.task = "poll"
     /\ ret.kind \in {"authorization_declined", "expired_token"})
  => /\ polls[ret.id].pc = "ended"
     /\ deviceCode = Null
     /\ deviceFile.kind # "blob"
     /\ tokens = Null

\* C8: when a poll loop has just timed out after MAX_POLL_ATTEMPTS
\* authorization_pending responses, the loop is over, the
\* DeviceAuthorization is gone from memory, no TokenSet is held and no poll
\* loop is running.
C8_TimeoutRevertsToNoCredentials ==
  (ret.task = "poll" /\ ret.kind = "timeout")
  => /\ ret.local.attempts = MAX_POLL_ATTEMPTS
     /\ polls[ret.id].pc = "ended"
     /\ deviceCode = Null
     /\ tokens = Null
     /\ RunningPolls = {}

\* C9: a poll loop ends on a network error only when that request was the
\* last of its attempt budget; with attempts left the error is absorbed and
\* the loop goes on.
C9_NetworkErrorDoesNotEndPollLoop ==
  (ret.task = "poll" /\ ret.kind = "network")
  => ret.local.attempts + 1 >= MAX_POLL_ATTEMPTS

\* C10: in every reachable state at most one poll loop is running.
C10_AtMostOneDeviceFlow == Cardinality(RunningPolls) <= 1

\* C11: when a poll success has just completed its write, and no refresh is
\* between its request and its write and no other poll success is writing
\* (so every refresh that overlapped the poll has completed too), the token
\* file holds the TokenSet held in memory.
C11_RefreshAndPollWritesDoNotInterleave ==
  (ret.task = "poll" /\ ret.kind = "success"
     /\ \A c \in Callers : calls[c].pc \notin {"ref_req", "ref_save"}
     /\ \A p \in PollIds : polls[p].pc # "save")
  => /\ tokens # Null
     /\ tokenFile = encrypt(tokens, machineKey)

\* a TokenSet that is neither valid at time t nor refreshable
StaleNonRefreshable(t, tok) == IsExpiring(t, tok) /\ ~HasRefreshToken(tok)

\* C12: in every reachable state the TokenSet held in memory and the
\* TokenSet stored in the token file are each valid or carry a refresh
\* token; and when a refresh has just been rejected with invalid_grant, the
\* token file does not hold an expiring TokenSet with the rejected refresh
\* token.
C12_PresentTokenSetValidOrRefreshable ==
  /\ tokens # Null => ~StaleNonRefreshable(now, tokens)
  /\ tokenFile.kind = "blob" => ~StaleNonRefreshable(now, tokenFile.data)
  /\ (ret.task = "call" /\ ret.kind = "reauthenticate"
        /\ ret.cause = "invalid_grant" /\ tokenFile.kind = "blob")
     => ~(IsExpiring(now, tokenFile.data)
          /\ tokenFile.data.refresh_token = ret.local.sent)

\* C13: the step that processes a successful refresh response replaces the
\* whole TokenSet by the one built from that response: access token and
\* expires_in of the response, expiresAt computed from the time of the step,
\* the token type the server issues, and as refresh token the one of the
\* response if it has one, otherwise the one held just before the step.
\* The step that ends a refreshAccessToken without error has written
\* exactly that TokenSet to the token file.
C13_RefreshReplacesWholeTokenSet ==
  [][\A c \in Callers :
       /\ (calls[c].pc = "ref_req" /\ calls'[c].pc = "ref_save")
          => LET r == calls'[c].resp IN
             /\ r.ok
             /\ tokens' # Null
             /\ tokens'.access_token = r.access_token
             /\ tokens'.refresh_token
                  = IF r.refresh_token # NoId THEN r.refresh_token
                    ELSE tokens.refresh_token
             /\ tokens'.expires_in = r.expires_in
             /\ tokens'.expires_at = now + (r.expires_in * 1000)
             /\ tokens'.token_type = "Bearer"
             /\ tokens # Null => tokens'.access_token # tokens.access_token
             /\ calls'[c].data = tokens'
       /\ (calls[c].pc = "ref_save" /\ calls'[c].pc = "idle"
             /\ ret'.kind # "reauthenticate")
          => tokenFile' = encrypt(calls[c].data, machineKey')]_vars

\* C13 witness: a refreshAccessToken has just succeeded on a response that
\* carried no refresh token: the TokenSet held and stored is the one built
\* from the response, with the refresh token held before and a new access
\* token and expiresAt
C13_Witness ==
  /\ ret.task = "call"
  /\ ret.kind \in {"refreshed", "token"}
  /\ ret.local.pc = "ref_save"
  /\ ret.local.resp.refresh_token = NoId
  /\ tokens = ret.local.data
  /\ tokens.refresh_token = ret.local.sent
  /\ tokens.access_token = ret.local.resp.access_token
  /\ tokens.access_token # ret.local.startAccess
  /\ tokens.expires_at = ret.local.builtAt + (ret.local.resp.expires_in * 1000)
  /\ tokenFile = encrypt(tokens, machineKey)

\* C14: initialize completes successfully only when neither the token file
\* nor the device file is a file that exists but cannot be parsed or
\* decrypted.
C14_InitializeFailsOnCorruptStorage ==
  [][(~initialized /\ initialized')
       => /\ tokenFile.kind # "corrupt"
          /\ deviceFile.kind # "corrupt"]_vars

(* ---------------- EncryptionManager on its own: the store ---------------- *)
\* the key of another host: a blob under it stands for every blob whose
\* authentication tag does not verify under the key of this machine
\* (copied from another machine, or altered)
ForeignKey == "key-of-another-machine"

\* the parts of a blob that the authentication tag protects
BlobParts == {"encrypted", "tag"}

\* a blob written by encrypt of which one part was altered afterwards: its
\* tag no longer verifies (decipher.final throws)
AlterBlob(blob, part) ==
  [kind |-> "altered", key |-> blob.key, data |-> blob.data, part |-> part]

\* the objects AuthManager stores: TokenSets and a DeviceAuthorization
Payloads ==
  {StoredTokens, TokenSet(1, NoId, 300, 0), DeviceAuthorization(1, 10)}

\* what a file of the data directory may hold when the store is used
StoreFiles ==
  {NoFile, CorruptFile}
  \cup {encrypt(d, k) : d \in Payloads, k \in {MachineKey, ForeignKey}}
  \cup {AlterBlob(encrypt(d, MachineKey), part) :
          d \in Payloads, part \in BlobParts}

\* CONFIG.TOKEN_FILE and CONFIG.DEVICE_FILE
Paths == {"token", "device"}

\* the content of the file at path
FileAt(path) == IF path = "token" THEN tokenFile ELSE deviceFile

\* the store before its first call: any files, no key cached
StoreInit ==
  /\ initialized = FALSE
  /\ tokens = Null
  /\ deviceCode = Null
  /\ machineKey = NoKey
  /\ tokenFile \in StoreFiles
  /\ deviceFile \in StoreFiles
  /\ now = 0
  /\ calls = [c \in Callers |-> IdleCall]
  /\ polls = [p \in PollIds |-> FreePoll]
  /\ nextId = 1
  /\ nextDev = 1
  /\ ret = NoRet

\* one call of loadEncryptedData(path); ret is what it returned or that it
\* threw
StoreLoad(path) ==
  /\ \E l \in loadEncryptedData(FileAt(path), machineKey) :
       /\ machineKey' = l.key
       /\ ret' = [task |-> "load", path |-> path, ok |-> l.ok,
                  value |-> l.value]
  /\ UNCHANGED <<initialized, tokens, deviceCode, tokenFile, deviceFile, now,
                 calls, polls, nextId, nextDev>>

\* one call of saveEncryptedData(path, data); ret is whether it threw
StoreSave(path, data) ==
  /\ \E s \in saveEncryptedData(FileAt(path), data, machineKey) :
       /\ machineKey' = s.key
       /\ tokenFile' = IF path = "token" THEN s.file ELSE tokenFile
       /\ deviceFile' = IF path = "device" THEN s.file ELSE deviceFile
       /\ ret' = [task |-> "save", path |-> path, ok |-> s.ok,
                  value |-> data]
  /\ UNCHANGED <<initialized, tokens, deviceCode, now, calls, polls, nextId,
                 nextDev>>

StoreNext ==
  \/ \E path \in Paths : StoreLoad(path)
  \/ \E path \in Paths : \E data \in Payloads : StoreSave(path, data)

SpecStore == StoreInit /\ [][StoreNext]_vars

\* C15: when loadEncryptedData has just been called on a path, it returned
\* null without error exactly when the file does not exist; for a file that
\* exists but is malformed or truncated, or whose decryption fails, it
\* threw and returned no value; and a value it returned is the plaintext of
\* the blob in the file.
C15_LoadAbsentOnlyWhenMissing ==
  ret.task = "load"
  => LET f == FileAt(ret.path) IN
     /\ (ret.ok /\ ret.value = Null) <=> f.kind = "absent"
     /\ (f.kind = "corrupt" \/ (f.kind = "blob" /\ f.key # MachineKey))
          => (~ret.ok /\ ret.value = Null)
     /\ (ret.ok /\ f.kind # "absent")
          => (f.kind = "blob" /\ ret.value = f.data)

\* C15 witness: loadEncryptedData has just thrown on a file that exists and
\* fails decryption, while the other file is absent
C15_Witness ==
  /\ ret.task = "load"
  /\ ~ret.ok
  /\ FileAt(ret.path).kind = "blob"
  /\ FileAt(ret.path).key = ForeignKey
  /\ \E q \in Paths \ {ret.path} : FileAt(q).kind = "absent"

\* the step just taken ended an authenticate, called as the tool or from
\* getValidAccessToken, after its device-code request had succeeded
DeviceFlowCallEnded == ret.task = "call" /\ ret.local.pc = "dev_save"

\* C16 as stated: every authenticate whose device-code request succeeded
\* ends with AuthenticationRequired, its DeviceAuthorization persisted and
\* its poll loop launched; and the step that ends a poll loop, whatever its
\* outcome, ends no call and changes no call.
C16_DeviceFlowAlwaysAuthRequired ==
  /\ [](DeviceFlowCallEnded
          => /\ ret.kind = "authentication_required"
             /\ deviceFile = encrypt(ret.local.data, machineKey)
             /\ ret.launched \in PollIds
             /\ polls[ret.launched].pc # "free")
  /\ [][ret'.task = "poll" => UNCHANGED calls]_vars

\* C16 amended: every authenticate whose device-code request succeeded
\* ends with AuthenticationRequired when its DeviceAuthorization has been
\* persisted, and then its poll loop has been launched and has not ended;
\* when persisting failed it ends with an authentication-failed error
\* caused by the save, the file does not hold its DeviceAuthorization and
\* no poll loop has been launched.  The step that ends a poll loop,
\* whatever its outcome, ends no call and changes no call.
C16_DeviceFlowAuthRequiredOncePersisted ==
  /\ [](DeviceFlowCallEnded
          => IF deviceFile = encrypt(ret.local.data, machineKey)
               THEN /\ ret.kind = "authentication_required"
                    /\ ret.cause = "none"
                    /\ ret.launched \in PollIds
                    /\ polls[ret.launched].pc \notin {"free", "ended"}
               ELSE /\ ret.kind = "authentication_failed"
                    /\ ret.cause = "save_failed"
                    /\ ret.launched = 0
                    /\ ret.instr = Null)
  /\ [][ret'.task = "poll"
          => /\ UNCHANGED calls
             /\ ret'.op = "pollForToken"]_vars

\* C16 witness: the authenticate tool has just ended with
\* AuthenticationRequired, its DeviceAuthorization persisted and its poll
\* loop launched
C16_Witness ==
  /\ DeviceFlowCallEnded
  /\ ret.op = "authenticate"
  /\ ret.kind = "authentication_required"
  /\ deviceFile = encrypt(ret.local.data, machineKey)
  /\ ret.launched \in PollIds
  /\ polls[ret.launched].pc = "req"

\* C17: when a getValidAccessToken entered with no TokenSet has just
\* signalled AuthenticationRequired, the device-code response it received
\* has been persisted (the device file holds its DeviceAuthorization) and
\* the first poll request of the loop it launched has been issued, without
\* any delay, with the device code of that persisted DeviceAuthorization.
C17_FirstPollUsesPersistedDeviceCode ==
  (ret.task = "call" /\ ret.op = "getValidAccessToken"
     /\ ret.kind = "authentication_required")
  => /\ ret.local.startAccess = NoId
     /\ ret.local.data.device_code < nextDev
     /\ deviceFile = encrypt(ret.local.data, machineKey)
     /\ polls[ret.launched].pc = "req"
     /\ polls[ret.launched].attempts = 0
     /\ polls[ret.launched].sleepFor = 0
     /\ polls[ret.launched].sent = deviceFile.data.device_code

\* C18: a poll loop that sleeps between two poll requests sleeps for the
\* interval of the DeviceAuthorization held, the one the authorization
\* server returned in the device-code response, in milliseconds.
C18_PollSleepsServerInterval ==
  \A p \in PollIds :
    polls[p].pc = "sleep"
    => /\ deviceCode # Null
       /\ polls[p].sleepFor = deviceCode.interval * 1000

\* the step just taken ended a getValidAccessToken by returning a token
GetValidReturned ==
  ret.task = "call" /\ ret.op = "getValidAccessToken" /\ ret.kind = "token"

\* C19 as stated: when getValidAccessToken has just returned an access
\* token, it is the access token of the TokenSet held, and
\* now < expiresAt - buffer holds for that TokenSet, on the cached path and
\* after a refresh alike.
C19_ReturnedTokenIsFresh ==
  GetValidReturned
  => /\ tokens # Null
     /\ ret.token = tokens.access_token
     /\ now < tokens.expires_at - TOKEN_EXPIRY_BUFFER

\* C19 amended: when getValidAccessToken has just returned an access token,
\* it is the access token of the TokenSet held.  Returned without a refresh,
\* that TokenSet satisfies now < expiresAt - buffer.  Returned after a
\* refresh, that TokenSet was issued no earlier than the response to the
\* call's refresh request and is not the one held at entry; it is returned
\* without a freshness check, whatever its expiry.
C19_ReturnedTokenFreshUnlessRefreshed ==
  GetValidReturned
  => /\ tokens # Null
     /\ ret.token = tokens.access_token
     /\ ret.local.pc \in {"idle", "ref_save"}
     /\ ret.local.pc = "idle"
          => /\ now < tokens.expires_at - TOKEN_EXPIRY_BUFFER
             /\ ret.local.refreshReqs = 0
     /\ ret.local.pc = "ref_save"
          => LET issued == tokens.expires_at - (tokens.expires_in * 1000) IN
             /\ ret.local.refreshReqs = 1
             /\ ret.token # ret.local.startAccess
             /\ issued >= ret.local.builtAt
             /\ issued <= now

\* C19 witness: getValidAccessToken has just returned, after a refresh, the
\* access token of a TokenSet that is within the expiry buffer
C19_Witness ==
  /\ GetValidReturned
  /\ ret.local.pc = "ref_save"
  /\ tokens = ret.local.data
  /\ ret.token = tokens.access_token
  /\ now >= tokens.expires_at - TOKEN_EXPIRY_BUFFER

\* the time at which a TokenSet was issued if its expiresAt was computed as
\* issue time + expires_in * 1000
IssueTime(tok) == tok.expires_at - (tok.expires_in * 1000)

\* C20: in every reachable state the TokenSet held and the TokenSet stored
\* in the token file have an expiresAt that is expires_in * 1000 after a
\* time that is not in the future.  Every step after initialization that
\* puts a new TokenSet in memory computes its expiresAt as the time of the
\* step + expires_in * 1000; and every step that writes a TokenSet to the
\* token file writes the one its writer built, whose expiresAt is the time
\* its writer processed the response + expires_in * 1000.
C20_ExpiresAtIsIssueTimePlusExpiresIn ==
  /\ [](/\ tokens # Null
             => (IssueTime(tokens) >= 0 /\ IssueTime(tokens) <= now)
        /\ tokenFile.kind = "blob"
             => (IssueTime(tokenFile.data) >= 0
                 /\ IssueTime(tokenFile.data) <= now))
  /\ [][/\ (initialized /\ tokens' # tokens /\ tokens' # Null)
             => tokens'.expires_at = now + (tokens'.expires_in * 1000)
        /\ (tokenFile' # tokenFile /\ tokenFile'.kind = "blob")
             => \/ \E c \in Callers :
                     /\ calls[c].pc = "ref_save"
                     /\ calls'[c].pc = "idle"
                     /\ tokenFile'.data = calls[c].data
                     /\ IssueTime(calls[c].data) = calls[c].builtAt
                \/ \E p \in PollIds :
                     /\ polls[p].pc = "save"
                     /\ polls'[p].pc = "ended"
                     /\ tokenFile'.data = polls[p].data
                     /\ IssueTime(polls[p].data) = polls[p].builtAt]_vars

\* C20 witness: a refresh processed after the clock has advanced has just
\* succeeded; the TokenSet held and stored has the expiresAt computed from
\* that later time, not the one of the TokenSet it replaced
C20_Witness ==
  /\ ret.task = "call"
  /\ ret.kind \in {"refreshed", "token"}
  /\ ret.local.pc = "ref_save"
  /\ ret.local.builtAt = TOKEN_EXPIRY_BUFFER
  /\ tokens = ret.local.data
  /\ tokens.expires_at = TOKEN_EXPIRY_BUFFER + (tokens.expires_in * 1000)
  /\ tokenFile = encrypt(tokens, machineKey)

(* ------------------------- progress of the tasks ------------------------ *)
\* the steps of the server while the clock stands still: the progress of a
\* poll loop depends on the responses and on its timer (PollWake), not on
\* the time of day
LiveNext ==
  \/ Initialize
  \/ \E c \in Callers : GetValidAccessToken(c)
  \/ \E c \in Callers : AuthenticateTool(c)
  \/ \E c \in Callers : RefreshTool(c)
  \/ \E c \in Callers : DeviceCodeResponse(c)
  \/ \E c \in Callers : DeviceSaveDone(c)
  \/ \E c \in Callers : RefreshResponse(c)
  \/ \E c \in Callers : RefreshSaveDone(c)
  \/ \E p \in PollIds : PollResponse(p)
  \/ \E p \in PollIds : PollSaveDone(p)
  \/ \E p \in PollIds : PollWake(p)

\* a launched poll loop is not starved: its request is answered or fails,
\* its write completes or fails, its timer fires.  Requests of clients
\* arrive or not as the clients please.
PollFairness ==
  \A p \in PollIds :
    /\ WF_vars(PollResponse(p))
    /\ WF_vars(PollSaveDone(p))
    /\ WF_vars(PollWake(p))

\* a handler that awaits a response or a write is resumed: the request is
\* answered or fails, the write completes or fails
CallFairness ==
  \A c \in Callers :
    /\ WF_vars(DeviceCodeResponse(c))
    /\ WF_vars(DeviceSaveDone(c))
    /\ WF_vars(RefreshResponse(c))
    /\ WF_vars(RefreshSaveDone(c))

SpecLive == Init /\ [][LiveNext]_vars /\ PollFairness /\ CallFairness

\* the step enters getValidAccessToken in handler c with a TokenSet that is
\* not within the expiry buffer
GetValidEntryFresh(c) ==
  /\ GetValidEntry(c)
  /\ tokens # Null
  /\ now < tokens.expires_at - TOKEN_EXPIRY_BUFFER

\* C21 as stated: once a poll request has been answered with success,
\* eventually a TokenSet is held and the token file holds it; and a
\* getValidAccessToken entered with an unexpired TokenSet returns its access
\* token and starts no device flow.
C21_PollSuccessEventuallyPersisted ==
  /\ \A p \in PollIds :
       (polls[p].pc = "save")
         ~> (tokens # Null /\ tokenFile = encrypt(tokens, machineKey))
  /\ [][\A c \in Callers :
          GetValidEntryFresh(c)
          => /\ ret'.kind = "token"
             /\ ret'.token = tokens.access_token
             /\ UNCHANGED <<calls, polls, nextDev, deviceCode>>]_vars

\* C21 amended: the step that processes a success response to a poll
\* request puts the TokenSet built from it in memory; from then on the loop
\* eventually ends, and it ends either in success with that TokenSet in the
\* token file, or on a failed save.  A getValidAccessToken entered with an
\* unexpired TokenSet returns its access token and starts no device flow.
C21_PollSuccessPersistedUnlessSaveFails ==
  /\ \A p \in PollIds :
       (polls[p].pc = "save")
         ~> /\ polls[p].pc = "ended"
            /\ ret.task = "poll"
            /\ ret.id = p
            /\ ret.local.pc = "save"
            /\ ret.kind \in {"success", "save_failed"}
            /\ ret.kind = "success"
                 => tokenFile = encrypt(ret.local.data, machineKey)
            /\ ret.kind = "save_failed"
                 => tokenFile # encrypt(ret.local.data, machineKey)
  /\ [][\A p \in PollIds :
          (polls[p].pc = "req" /\ polls'[p].pc = "save")
          => /\ tokens' = polls'[p].data
             /\ tokens' # Null
             /\ tokens'.access_token = nextId]_vars
  /\ [][\A c \in Callers :
          GetValidEntryFresh(c)
          => /\ ret'.kind = "token"
             /\ ret'.token = tokens.access_token
             /\ UNCHANGED <<calls, polls, nextDev, deviceCode>>]_vars

\* C21 witness: after the one device flow of the run ended in a persisted
\* TokenSet, a getValidAccessToken has just returned the access token of
\* that TokenSet from the cache
C21_Witness ==
  /\ GetValidReturned
  /\ ret.local.pc = "idle"
  /\ nextDev = 2
  /\ deviceCode # Null
  /\ tokens # Null
  /\ tokens.access_token = 1
  /\ ret.token = 1
  /\ tokenFile = encrypt(tokens, machineKey)
  /\ polls[1].pc = "ended"

\* loadEncryptedData rejects the file: it throws whatever the key cache
LoadRejects(file) ==
  \A cache \in {NoKey, MachineKey} :
    \A l \in loadEncryptedData(file, cache) : ~l.ok

\* C22: a step in which saveEncryptedData(path, data) fails leaves the file
\* at path with its previous content, or with the complete new blob, or
\* with content that loadEncryptedData rejects; the other file is not
\* touched.  A step in which it succeeds leaves the complete new blob.
C22_FailedSaveLeavesOldNewOrRejected ==
  [][\A path \in Paths :
       (ret'.task = "save" /\ ret'.path = path)
       => /\ ~ret'.ok
               => \/ FileAt(path)' = FileAt(path)
                  \/ FileAt(path)' = encrypt(ret'.value, MachineKey)
                  \/ LoadRejects(FileAt(path)')
          /\ ret'.ok => FileAt(path)' = encrypt(ret'.value, MachineKey)
          /\ \A q \in Paths \ {path} : FileAt(q)' = FileAt(q)]_vars

\* C22 witness: saveEncryptedData has just failed with the key cached (so
\* the failure was in the write) and the file is left with content that
\* loadEncryptedData rejects
C22_Witness ==
  /\ ret.task = "save"
  /\ ~ret.ok
  /\ machineKey = MachineKey
  /\ FileAt(ret.path) = CorruptFile
  /\ LoadRejects(FileAt(ret.path))

(* ------------------------- process restarts ---------------------------- *)
\* the process ends and a new one is constructed (EncryptionManager and
\* AuthManager constructors): nothing held, no key cached, the files as
\* they were left
Restart ==
  /\ initialized = TRUE
  /\ initialized' = FALSE
  /\ tokens' = Null
  /\ deviceCode' = Null
  /\ machineKey' = NoKey
  /\ ret' = NoRet
  /\ UNCHANGED <<tokenFile, deviceFile, now, calls, polls, nextId, nextDev>>

RestartNext ==
  \/ Initialize
  \/ Restart

\* a process started over any pair of files, initialized, restarted
SpecRestart == StoreInit /\ [][RestartNext]_vars

\* the object the file holds for this machine: none when it is absent or
\* is not a blob under the key of this machine
FileHolds(file) ==
  IF decrypt(file, MachineKey).ok THEN decrypt(file, MachineKey).value
  ELSE Null

\* C23: a step in which initialize completes leaves the TokenSet and the
\* DeviceAuthorization in memory equal to what the token file and the
\* device file hold, writes no file, sends no request and launches no
\* poll loop.
C23_InitializeLoadsWhatFilesHold ==
  [][(~initialized /\ initialized')
       => /\ tokens' = FileHolds(tokenFile)
          /\ deviceCode' = FileHolds(deviceFile)
          /\ UNCHANGED <<tokenFile, deviceFile, calls, polls, nextId,
                         nextDev>>]_vars

Unverifiable(file) ==
  \/ file.kind = "altered"
  \/ file.kind = "blob" /\ file.key # MachineKey

KeyOps == {"encrypt", "decrypt"}

\* the arguments: a payload for encrypt, a parsed blob for decrypt
KeyArgs(op) ==
  IF op = "encrypt" THEN Payloads
  ELSE StoreFiles \ {NoFile, CorruptFile}

\* a process with no key cached and nothing stored
KeyInit ==
  /\ initialized = FALSE
  /\ tokens = Null
  /\ deviceCode = Null
  /\ machineKey = NoKey
  /\ tokenFile = NoFile
  /\ deviceFile = NoFile
  /\ now = 0
  /\ calls = [c \in Callers |-> IdleCall]
  /\ polls = [p \in PollIds |-> FreePoll]
  /\ nextId = 1
  /\ nextDev = 1
  /\ ret = NoRet

\* what encrypt / decrypt returns once it has the key; derived tells
\* whether this call ran pbkdf2Sync
KeyRet(c, op, arg, key, derived) ==
  [task |-> op, caller |-> c, derived |-> derived,
   ok |-> IF op = "encrypt" THEN TRUE ELSE decrypt(arg, key).ok,
   value |-> IF op = "encrypt" THEN encrypt(arg, key)
             ELSE decrypt(arg, key).value]

\* encrypt / decrypt could not get the key
KeyFailed(c, op) ==
  [task |-> op, caller |-> c, derived |-> FALSE, ok |-> FALSE,
   value |-> Null]

\* caller c calls encrypt(arg) or decrypt(arg): with a key cached
\* getMachineKey returns it (line 126) and the call completes; without
\* one the call is suspended at "await machineId()" (line 119)
KeyBegin(c, op, arg) ==
  /\ calls[c].pc = "idle"
  /\ IF machineKey # NoKey
       THEN /\ ret' = KeyRet(c, op, arg, machineKey, FALSE)
            /\ calls' = calls
       ELSE /\ ret' = NoRet
            /\ calls' = [calls EXCEPT ![c] =
                 [IdleCall EXCEPT !.pc = "key_read", !.op = op,
                                  !.data = arg]]
  /\ UNCHANGED <<initialized, tokens, deviceCode, machineKey, tokenFile,
                 deviceFile, now, polls, nextId, nextDev>>

\* machineId() settles for caller c: resolved, the key is derived and
\* assigned to the cache (line 121) whatever the cache holds by now;
\* rejected, getMachineKey throws and the cache is left as it is
KeySettle(c) ==
  /\ calls[c].pc = "key_read"
  /\ \E k \in getMachineKey(NoKey) :
       IF k.ok
         THEN /\ machineKey' = k.key
              /\ ret' = KeyRet(c, calls[c].op, calls[c].data, k.key, TRUE)
         ELSE /\ machineKey' = machineKey
              /\ ret' = KeyFailed(c, calls[c].op)
  /\ calls' = [calls EXCEPT ![c] = IdleCall]
  /\ UNCHANGED <<initialized, tokens, deviceCode, tokenFile, deviceFile,
                 now, polls, nextId, nextDev>>

KeyNext ==
  \/ \E c \in Callers : \E op \in KeyOps : \E arg \in KeyArgs(op) :
       KeyBegin(c, op, arg)
  \/ \E c \in Callers : KeySettle(c)

SpecKey == KeyInit /\ [][KeyNext]_vars

\* C26: the key is derived only while no key is cached, so at most once
\* after a derivation has succeeded; a call made with a key cached returns
\* under that key and leaves it cached; a call in which reading the
\* machine identity fails caches nothing; and a call made with no key
\* cached attempts the derivation.
C26_KeyDerivedOnceAndCached ==
  [][\A c \in Callers :
       /\ (calls[c].pc = "key_read" /\ calls'[c].pc = "idle"
           /\ ret'.derived)
            => machineKey = NoKey
       /\ (calls[c].pc = "idle" /\ machineKey # NoKey
           /\ ret'.task \in KeyOps /\ ret'.caller = c)
            => (~ret'.derived /\ machineKey' = machineKey)
       /\ (calls[c].pc = "key_read" /\ calls'[c].pc = "idle"
           /\ ~ret'.derived)
            => (~ret'.ok /\ machineKey' = machineKey)
       /\ (calls[c].pc = "idle" /\ calls'[c].pc # "idle")
            => (machineKey = NoKey /\ calls'[c].pc = "key_read")
       /\ (machineKey = NoKey /\ ret'.task \in KeyOps /\ ret'.caller = c)
            => calls[c].pc = "key_read"]_vars

(* ------------------------- the two files ------------------------------- *)
\* C27: the step in which saveTokens returns or throws (after a refresh,
\* after a poll success) leaves the device file unchanged, the step in
\* which saveDeviceCode returns or throws leaves the token file unchanged,
\* and no step changes both files.
C27_TokenAndDeviceFilesIndependent ==
  [][/\ \A c \in Callers :
          /\ (calls[c].pc = "ref_save" /\ calls'[c].pc # "ref_save")
               => deviceFile' = deviceFile
          /\ (calls[c].pc = "dev_save" /\ calls'[c].pc # "dev_save")
               => tokenFile' = tokenFile
     /\ \A p \in PollIds :
          (polls[p].pc = "save" /\ polls'[p].pc # "save")
            => deviceFile' = deviceFile
     /\ tokenFile' = tokenFile \/ deviceFile' = deviceFile]_vars

\* C27 witness: a poll loop has just persisted its TokenSet while the
\* device file holds the DeviceAuthorization persisted when the flow
\* started
C27_Witness ==
  /\ ret.task = "poll"
  /\ ret.kind = "success"
  /\ tokens # Null
  /\ tokenFile = encrypt(tokens, machineKey)
  /\ deviceCode # Null
  /\ deviceFile = encrypt(deviceCode, machineKey)

(* ---------------------- the poll loop terminates ----------------------- *)
\* C28: every launched poll loop ends, provided each of its requests is
\* answered; a loop suspended at its k-th request has counted k-1
\* authorization_pending answers and k is at most MAX_POLL_ATTEMPTS; the
\* answer to a request leads to the sleep that precedes another request
\* only with the attempt counted (authorization_pending), and otherwise to
\* the save of the TokenSet or to the end of the loop; a request is sent
\* only at launch or after such a sleep.
C28_PollLoopTerminatesWithinMaxAttempts ==
  /\ \A p \in PollIds :
       (polls[p].pc \in {"req", "sleep", "save"}) ~> (polls[p].pc = "ended")
  /\ [](\A p \in PollIds :
          /\ polls[p].attempts <= MAX_POLL_ATTEMPTS
          /\ polls[p].pc = "req" => polls[p].attempts < MAX_POLL_ATTEMPTS)
  /\ [][\A p \in PollIds :
          /\ (polls[p].pc = "req" /\ polls'[p] # polls[p])
               => \/ /\ polls'[p].pc = "sleep"
                     /\ polls'[p].attempts = polls[p].attempts + 1
                  \/ polls'[p].pc \in {"save", "ended"}
          /\ (polls'[p].pc = "req" /\ polls'[p] # polls[p])
               => polls[p].pc \in {"free", "sleep"}
          /\ (polls[p].pc = "sleep" /\ polls'[p] # polls[p])
               => \/ /\ polls'[p].pc = "req"
                     /\ polls'[p].attempts = polls[p].attempts
                  \/ polls'[p].pc = "ended"]_vars

\* C28 witness: a poll loop has just ended in the timeout, every one of
\* its MAX_POLL_ATTEMPTS requests answered authorization_pending
C28_Witness ==
  /\ ret.task = "poll"
  /\ ret.kind = "timeout"
  /\ ret.local.pc = "sleep"
  /\ ret.local.attempts = MAX_POLL_ATTEMPTS
  /\ polls[ret.id].pc = "ended"

(* ------------------- overlapping getValidAccessToken ------------------- *)
\* handlers c and d are both in the refresh of getValidAccessToken, entered
\* on the same TokenSet, with the same refresh token sent; d's refresh has
\* succeeded with a rotated refresh token and its TokenSet is held while d
\* awaits saveTokens; c still awaits its response
RefreshedWhileOtherWaits(d, c) ==
  /\ c # d
  /\ calls[d].op = "getValidAccessToken"
  /\ calls[c].op = "getValidAccessToken"
  /\ calls[d].pc = "ref_save"
  /\ calls[c].pc = "ref_req"
  /\ calls[c].startAccess = calls[d].startAccess
  /\ calls[c].sent = calls[d].sent
  /\ tokens = calls[d].data
  /\ tokens.refresh_token # calls[d].sent

\* C29: when two getValidAccessToken calls refresh the same TokenSet with
\* the same refresh token and the server, having accepted it once, rejects
\* its second use, the step in which the rejected call fails leaves the
\* TokenSet of the successful refresh held; and the step in which the
\* successful call's saveTokens completes leaves a TokenSet held, and
\* persisted when it is the one that call built.
C29_RejectedRefreshKeepsOtherTokenSet ==
  [][\A c, d \in Callers :
       /\ (/\ RefreshedWhileOtherWaits(d, c)
           /\ ret'.task = "call" /\ ret'.id = c
           /\ ret'.cause = "invalid_grant")
            => tokens' = tokens
       /\ (/\ calls[d].op = "getValidAccessToken"
           /\ calls[d].pc = "ref_save"
           /\ ret'.task = "call" /\ ret'.id = d
           /\ ret'.cause # "save_failed")
            => /\ tokens' # Null
               /\ tokens' = calls[d].data
                    => tokenFile' = encrypt(tokens', machineKey')]_vars

\* C30: every getValidAccessToken call ends by returning an access token,
\* by throwing the authentication-required instructions, or by throwing a
\* re-authentication error (the refresh failed, or there is no refresh
\* token) or an authentication-failed error; when it returns, a TokenSet
\* is held and the token returned is its access token.
C30_GetValidEndsInTokenOrAuthError ==
  (ret.task = "call" /\ ret.op = "getValidAccessToken")
    => /\ ret.kind \in {"token", "authentication_required",
                        "reauthenticate", "no_refresh_token",
                        "authentication_failed"}
       /\ ret.kind = "token"
            => (tokens # Null /\ ret.token = tokens.access_token)

(* --------------------- the device code of a loop ----------------------- *)
\* C31: the first poll request of a loop carries the device code of the
\* DeviceAuthorization that the call which launched it received, and every
\* later request of the loop, sent when a sleep ends, carries the device
\* code of the request before it.
C31_PollUsesOwnDeviceCode ==
  [][/\ (ret'.task = "call" /\ ret'.launched \in PollIds)
          => polls'[ret'.launched].sent = ret'.local.data.device_code
     /\ \A p \in PollIds :
          (polls[p].pc = "sleep" /\ polls'[p].pc = "req")
            => polls'[p].sent = polls[p].sent]_vars

(* ---------------------- ProfileTools.getMyProfile ---------------------- *)
\* the locals of one getMyProfile call, nested retries included: apiReqs
\* counts the profile requests sent to the Graph API, refreshReqs the
\* refresh requests sent to the token endpoint, stage tells which refresh
\* is awaited ("gv": the one inside getValidAccessToken, "retry": the one
\* of the catch block), startAccess is the access token of the last profile
\* request
ProfileStart ==
  [pc |-> "idle", op |-> "getMyProfile", startAccess |-> NoId,
   refreshReqs |-> 0, data |-> Null, builtAt |-> 0, sent |-> NoId,
   resp |-> Null, apiReqs |-> 0, stage |-> "none"]

\* the HTTP status of the Graph API's answer to a profile request
ProfileStatuses == {200, 401, 500}

\* the profile request is sent with the access token held (lines 391-399)
ProfileRequest(call) ==
  [call EXCEPT !.pc = "api", !.apiReqs = @ + 1, !.stage = "none",
               !.startAccess = tokens.access_token]

\* refreshAccessToken is entered with a refresh token held: the refresh
\* request is sent
ProfileRefresh(call, stage) ==
  [call EXCEPT !.pc = "p_ref_req", !.refreshReqs = @ + 1, !.stage = stage,
               !.sent = tokens.refresh_token]

\* getMyProfile from the top of its try block to its first await (line
\* 389, getValidAccessToken lines 267-282), for the call whose locals so
\* far are call: without a TokenSet the device-code request is sent, with
\* an expiring one the refresh request (or "No refresh token" is thrown,
\* caught at line 405 and returned as a failure), otherwise the profile
\* request
ProfileGetToken(c, call) ==
  IF tokens = Null
    THEN /\ FlowsStarted < MaxPolls
         /\ calls' = [calls EXCEPT ![c] = [call EXCEPT !.pc = "dev_req"]]
         /\ ret' = NoRet
    ELSE IF IsExpiring(now, tokens)
      THEN IF HasRefreshToken(tokens)
             THEN /\ calls' = [calls EXCEPT ![c] = ProfileRefresh(call, "gv")]
                  /\ ret' = NoRet
             ELSE /\ calls' = [calls EXCEPT ![c] = IdleCall]
                  /\ ret' = CallRet(c, call, "failed", "no_refresh_token",
                                    NoId, Null, 0)
      ELSE /\ calls' = [calls EXCEPT ![c] = ProfileRequest(call)]
           /\ ret' = NoRet

\* the get_entra_profile tool: a getMyProfile call begins
GetMyProfile(c) ==
  /\ initialized
  /\ calls[c].pc = "idle"
  /\ Active < MaxActive
  /\ ProfileGetToken(c, ProfileStart)
  /\ UNCHANGED <<initialized, tokens, deviceCode, machineKey, tokenFile,
                 deviceFile, now, polls, nextId, nextDev>>

\* the Graph API answers the profile request (lines 401-428): 200 is
\* returned as success; 401 enters refreshAccessToken, which throws at once
\* without a refresh token; any other error is returned as a failure
ProfileApiResponse(c) ==
  /\ calls[c].pc = "api"
  /\ \E status \in ProfileStatuses :
       IF status = 401 /\ HasRefreshToken(tokens)
         THEN /\ calls' = [calls EXCEPT ![c] =
                             ProfileRefresh(calls[c], "retry")]
              /\ ret' = NoRet
         ELSE /\ calls' = [calls EXCEPT ![c] = IdleCall]
              /\ ret' = CallRet(c, calls[c],
                          IF status = 200 THEN "success"
                          ELSE IF status = 401 THEN "reauthorize"
                          ELSE "failed",
                          IF status = 401 THEN "no_refresh_token" ELSE "none",
                          NoId, Null, 0)
  /\ UNCHANGED <<initialized, tokens, deviceCode, machineKey, tokenFile,
                 deviceFile, now, polls, nextId, nextDev>>

\* how getMyProfile returns when the refresh it awaits throws: the refresh
\* of getValidAccessToken is caught at line 405 and returned as a plain
\* failure, the one of the catch block at line 414 as "re-authorize"
ProfileRefreshFailed(c, cause) ==
  CallRet(c, calls[c],
          IF calls[c].stage = "retry" THEN "reauthorize" ELSE "failed",
          cause, NoId, Null, 0)

\* the token endpoint answers a refresh sent by getMyProfile (lines
\* 398-424 of refreshAccessToken)
ProfileRefreshResponse(c) ==
  /\ calls[c].pc = "p_ref_req"
  /\ \E r \in TokenResponses({"invalid_grant", "network"}) :
       /\ nextId' = IF r.ok THEN nextId + 1 ELSE nextId
       /\ IF r.ok /\ ~(r.refresh_token = NoId /\ tokens = Null)
            THEN LET new == TokenSet(r.access_token, RefreshTokenOf(r, tokens),
                                     r.expires_in, now)
                 IN /\ tokens' = new
                    /\ calls' = [calls EXCEPT ![c].pc = "p_ref_save",
                                 ![c].data = new, ![c].builtAt = now,
                                 ![c].resp = r]
                    /\ ret' = NoRet
            ELSE /\ tokens' = Null
                 /\ calls' = [calls EXCEPT ![c] = IdleCall]
                 /\ ret' = ProfileRefreshFailed(c,
                             IF r.ok THEN "type_error" ELSE r.error)
  /\ UNCHANGED <<initialized, deviceCode, machineKey, tokenFile, deviceFile,
                 now, polls, nextDev>>

\* saveTokens of a refresh sent by getMyProfile returns or throws.  After
\* the refresh of getValidAccessToken line 281 reads this.tokens again and
\* the profile request is sent; after the refresh of the catch block
\* getMyProfile calls itself (line 413)
ProfileRefreshSaveDone(c) ==
  /\ calls[c].pc = "p_ref_save"
  /\ \E s \in saveEncryptedData(tokenFile, calls[c].data, machineKey) :
       /\ tokenFile' = s.file
       /\ machineKey' = s.key
       /\ IF s.ok
            THEN /\ UNCHANGED tokens
                 /\ IF calls[c].stage = "retry"
                      THEN ProfileGetToken(c, calls[c])
                      ELSE IF tokens = Null
                        THEN /\ calls' = [calls EXCEPT ![c] = IdleCall]
                             /\ ret' = CallRet(c, calls[c], "failed",
                                               "type_error", NoId, Null, 0)
                        ELSE /\ calls' = [calls EXCEPT ![c] =
                                            ProfileRequest(calls[c])]
                             /\ ret' = NoRet
            ELSE /\ tokens' = Null
                 /\ calls' = [calls EXCEPT ![c] = IdleCall]
                 /\ ret' = ProfileRefreshFailed(c, "save_failed")
  /\ UNCHANGED <<initialized, deviceCode, deviceFile, now, polls, nextId,
                 nextDev>>

\* a server after initialize, at some time of the life of the TokenSet it
\* loaded
ProfileInit ==
  /\ initialized = TRUE
  /\ tokens \in {Null, StoredTokens, TokenSet(0, NoId, 600, 0)}
  /\ deviceCode = Null
  /\ machineKey = IF tokens = Null THEN NoKey ELSE MachineKey
  /\ tokenFile = IF tokens = Null THEN NoFile
                 ELSE encrypt(tokens, MachineKey)
  /\ deviceFile = NoFile
  /\ now \in {0, TOKEN_EXPIRY_BUFFER}
  /\ calls = [c \in Callers |-> IdleCall]
  /\ polls = [p \in PollIds |-> FreePoll]
  /\ nextId = 1
  /\ nextDev = 1
  /\ ret = NoRet

ProfileNext ==
  \/ \E c \in Callers : GetMyProfile(c)
  \/ \E c \in Callers : ProfileApiResponse(c)
  \/ \E c \in Callers : ProfileRefreshResponse(c)
  \/ \E c \in Callers : ProfileRefreshSaveDone(c)
  \/ \E c \in Callers : DeviceCodeResponse(c)
  \/ \E c \in Callers : DeviceSaveDone(c)
  \/ \E p \in PollIds : PollResponse(p)
  \/ \E p \in PollIds : PollSaveDone(p)
  \/ \E p \in PollIds : PollWake(p)

SpecProfile == ProfileInit /\ [][ProfileNext]_vars

\* the getMyProfile calls in flight past their first step
ProfileCalls ==
  {c \in Callers : calls[c].pc \in {"api", "p_ref_req", "p_ref_save"}}

\* C32: a getMyProfile call in flight has sent at most two profile
\* requests and at most one refresh request.
C32_ProfileRetriesAtMostOnce ==
  \A c \in ProfileCalls :
    /\ calls[c].apiReqs <= 2
    /\ calls[c].refreshReqs <= 1

(* ---------------------- EmailTools.handleError -------------------------- *)
\* the result handleError returns for a 401, given how its
\* refreshAccessToken call ended (lines 217-231)
HandleErrorResult(kind) ==
  IF kind = "refreshed"
    THEN [success |-> FALSE, retryable |-> TRUE,
          error |-> "Authentication refreshed. Please retry the operation."]
    ELSE [success |-> FALSE, retryable |-> FALSE,
          error |-> "Authentication failed. Please re-authorize the application."]

\* the CallTool handler throws an McpError for the result instead of
\* returning it (config.template.js lines 176-179)
CallToolRaises(result) == ~result.success /\ result.retryable

\* C33: when the refreshAccessToken call made by handleError after a 401,
\* with a TokenSet held, has ended, exactly one refresh request was sent; if it succeeded the
\* result is retryable and the CallTool handler raises it; if it failed the
\* result is the non-retryable "re-authorize" failure and no TokenSet is
\* held.
C33_HandleErrorRefreshesOnce ==
  (ret.task = "call" /\ ret.op = "refreshAccessToken"
     /\ ret.local.startAccess # NoId)
    => /\ ret.local.refreshReqs = 1
       /\ ret.kind = "refreshed"
            => CallToolRaises(HandleErrorResult(ret.kind))
       /\ ret.kind # "refreshed"
            => /\ ~CallToolRaises(HandleErrorResult(ret.kind))
               /\ tokens = Null

(* ------------------- requests and initialization ----------------------- *)
\* the ListTools handler (config.template.js lines 130-146): the tool list
\* when the server is initialized, otherwise the error "Server not
\* initialized"
ListTools(c) ==
  /\ calls[c].pc = "idle"
  /\ ret' = CallRet(c, StartCall("ListTools"),
                    IF initialized THEN "tools"
                    ELSE "server_not_initialized",
                    "none", NoId, Null, 0)
  /\ UNCHANGED <<initialized, tokens, deviceCode, machineKey, tokenFile,
                 deviceFile, now, calls, polls, nextId, nextDev>>

\* the CallTool handler reached while isInitialized is false (lines
\* 148-151): it throws before it reads the tool name
CallToolNotInitialized(c) ==
  /\ ~initialized
  /\ calls[c].pc = "idle"
  /\ ret' = CallRet(c, StartCall("CallTool"), "server_not_initialized",
                    "none", NoId, Null, 0)
  /\ UNCHANGED <<initialized, tokens, deviceCode, machineKey, tokenFile,
                 deviceFile, now, calls, polls, nextId, nextDev>>

\* the handlers are registered by the constructor, so a request may reach
\* them at any time; once initialized, CallTool dispatches to the tools of
\* Next
ServerNext ==
  \/ Next
  \/ \E c \in Callers : ListTools(c)
  \/ \E c \in Callers : CallToolNotInitialized(c)

SpecServer == Init /\ [][ServerNext]_vars

\* C34: while isInitialized is false no handler is in flight, no poll loop
\* was launched, nothing was requested from the authorization server and
\* every request that ended failed with "Server not initialized"; a
\* request fails so only while isInitialized is false; and isInitialized
\* becomes true only in the step in which AuthManager.initialize has loaded
\* the TokenSet from the token file, and never becomes false again.
C34_NothingServedBeforeInitialized ==
  /\ [](~initialized
          => /\ \A c \in Callers : calls[c].pc = "idle"
             /\ \A p \in PollIds : polls[p].pc = "free"
             /\ tokens = Null /\ deviceCode = Null
             /\ nextId = 1 /\ nextDev = 1
             /\ ret.task = "call" => ret.kind = "server_not_initialized")
  /\ [](ret.kind = "server_not_initialized" => ~initialized)
  /\ [][/\ initialized => initialized'
        /\ (~initialized /\ initialized')
             => /\ \E lt \in loadEncryptedData(tokenFile, machineKey) :
                     tokens' = IF lt.ok THEN lt.value ELSE Null
                /\ UNCHANGED <<calls, polls, nextId, nextDev>>]_vars

\* C34 witness: a CallTool request has just failed with "Server not
\* initialized" on a server whose token file holds a TokenSet that is not
\* loaded yet
C34_Witness ==
  /\ ~initialized
  /\ ret.task = "call"
  /\ ret.op = "CallTool"
  /\ ret.kind = "server_not_initialized"
  /\ tokenFile = encrypt(StoredTokens, MachineKey)
  /\ tokens = Null

====
